---- MODULE Spec2Model ----
(***************************************************************************)
(* Credential broker of templates_proyectos (AWS IAM Roles Anywhere):      *)
(* get_session / assume_role of AWS/conexion_aws.py and the two entry      *)
(* points descargar_contenido_archivo and obtener_datos_tabla that drive   *)
(* them and hand the escalated session to the S3 / DynamoDB collaborators. *)
(*                                                                         *)
(* Text is modelled as a sequence of one-character strings, bytes as a     *)
(* sequence of 0..255, so that lower-casing, hex encoding, slicing,        *)
(* str.replace and str.startswith are computed as Python computes them.    *)
(***************************************************************************)
EXTENDS Integers, Sequences, FiniteSets, TLC

VARIABLES
  entry,                \* which entry point runs: "bucket" or "tabla"
  pc,                   \* position of the run inside the entry point
  requested_duration,   \* duration the caller of the broker asks for (None: no request)
  certificate_path,     \* get_session argument, reassigned by the normalisation
  private_key_path,     \* get_session argument, reassigned by the normalisation
  cert,                 \* parsed certificate (local of get_session)
  private_key,          \* parsed key handle (local of get_session)
  RequestDateTime,      \* locals of get_session, lines 129-165
  Headers,
  RequestPayload,
  CanonicalRequest,
  CredentialScope,
  StringToSign,
  Authorization,
  response,             \* requests.Response of line 168
  credentials_anywhere, \* value returned by get_session
  sts_session,          \* temporary boto3.Session of assume_role, line 179
  new_session,          \* value returned by assume_role
  archivo,              \* key returned by obtener_archivo_por_fecha
  items,                \* accumulator of listar_items_dynamodb
  start_key,            \* continuation token of listar_items_dynamodb
  result,               \* value returned by the entry point
  exc,                  \* exception that left the entry point (None: none)
  posts,                \* HTTPS POSTs sent, in order
  clients,              \* session.client(service) creations, in order
  handed,               \* sessions passed to the downstream collaborators, in order
  scan_keys,            \* ExclusiveStartKey of each DynamoDB scan, in order
  calls,                \* trace of calls, returns and raises, in order
  service_calls,        \* requests made to S3 and DynamoDB with their answers, in order
  header_map,           \* input of the canonical request builder: a header map
  payload_bytes,        \* input of the canonical request builder: the payload
  canonical_out,        \* output of the canonical request builder (<<>>: not built)
  canonical_again,      \* output of building the same request once more
  pem_text,             \* input of the identity normalisation: a certificate or key string
  cert_parsed,          \* text the certificate parser is given for pem_text
  key_parsed,           \* text the private-key parser is given for pem_text
  inv,                  \* locals of each of the concurrent invocations of the broker
  socket_mode_client,   \* SlackClient.socket_mode_client
  shared_data,          \* SlackClient.shared_data (Unset: the attribute does not exist)
  slack_calls,          \* Slack API calls made by the SlackClient, in order
  slack_exc,            \* exception that left the last SlackClient operation (None: none)
  slack_ops,            \* number of SlackClient operations performed
  slack_req             \* request handled by the last operation, if it was process

vars == <<entry, pc, requested_duration, certificate_path, private_key_path, cert,
          private_key, RequestDateTime, Headers, RequestPayload, CanonicalRequest,
          CredentialScope, StringToSign, Authorization, response,
          credentials_anywhere, sts_session, new_session, archivo, items, start_key,
          result, exc, posts, clients, handed, scan_keys, calls, service_calls,
          header_map, payload_bytes, canonical_out, canonical_again, pem_text,
          cert_parsed, key_parsed, inv, socket_mode_client, shared_data, slack_calls,
          slack_exc, slack_ops, slack_req>>

\* Python values carry their type in field t; this is None
None == [t |-> "None"]

\* an attribute that was never assigned: reading it raises AttributeError
Unset == [t |-> "Unset"]

\* locals and logs of a broker run before the entry point is called (new_session apart)
BrokerLocalsEmpty ==
  /\ cert = None
  /\ private_key = None
  /\ RequestDateTime = <<>>
  /\ Headers = <<>>
  /\ RequestPayload = <<>>
  /\ CanonicalRequest = <<>>
  /\ CredentialScope = <<>>
  /\ StringToSign = <<>>
  /\ Authorization = <<>>
  /\ response = None
  /\ credentials_anywhere = None
  /\ sts_session = None
  /\ archivo = None
  /\ items = <<>>
  /\ start_key = None
  /\ result = None
  /\ exc = None
  /\ posts = <<>>
  /\ clients = <<>>
  /\ handed = <<>>
  /\ scan_keys = <<>>
  /\ calls = <<>>
  /\ service_calls = <<>>

\* the parts of the model that are not exercised by the specification of `running`:
\* no entry point runs, no request is canonicalised, no identity text is normalised,
\* no concurrent invocations run, no SlackClient exists
Idle(running) ==
  /\ IF running = "broker" THEN TRUE
     ELSE /\ entry = "bucket"
          /\ pc = "idle"
          /\ requested_duration = None
          /\ certificate_path = <<>>
          /\ private_key_path = <<>>
          /\ new_session = None
          /\ BrokerLocalsEmpty
  /\ IF running = "canonical" THEN TRUE
     ELSE /\ header_map = <<>>
          /\ payload_bytes = <<>>
          /\ canonical_out = <<>>
          /\ canonical_again = <<>>
  /\ IF running = "normalize" THEN TRUE
     ELSE /\ pem_text = <<>>
          /\ cert_parsed = None
          /\ key_parsed = None
  /\ IF running = "concurrent" THEN TRUE
     ELSE inv = <<>>
  /\ IF running = "slack" THEN TRUE
     ELSE /\ socket_mode_client = None
          /\ shared_data = Unset
          /\ slack_calls = <<>>
          /\ slack_exc = None
          /\ slack_ops = 0
          /\ slack_req = None

(***************************************************************************)
(* Text and bytes                                                          *)
(***************************************************************************)
\* the printable ASCII characters, code 32 to 126, in code order (the grave accent, code 96, is spelled out)
Printable ==
  <<" ","!","\"","#","$","%","&","'","(",")","*","+",",","-",".","/",
    "0","1","2","3","4","5","6","7","8","9",":",";","<","=",">","?","@",
    "A","B","C","D","E","F","G","H","I","J","K","L","M","N","O","P","Q","R","S",
    "T","U","V","W","X","Y","Z","[","\\","]","^","_","GRAVE",
    "a","b","c","d","e","f","g","h","i","j","k","l","m","n","o","p","q","r","s",
    "t","u","v","w","x","y","z","{","|","}","~">>

\* code point of a character (newline is 10)
Ord(c) == IF c = "\n" THEN 10 ELSE 31 + (CHOOSE i \in 1..Len(Printable) : Printable[i] = c)

\* character of a code point
Chr(n) == IF n = 10 THEN "\n" ELSE Printable[n - 31]

\* str.lower() on ASCII text
Lowercase(H) ==
  [i \in 1..Len(H) |-> IF Ord(H[i]) \in 65..90 THEN Chr(Ord(H[i]) + 32) ELSE H[i]]

\* str.encode("utf-8") on ASCII text
Encode(s) == [i \in 1..Len(s) |-> Ord(s[i])]

\* bytes.decode("utf-8") on ASCII bytes
Decode(b) == [i \in 1..Len(b) |-> Chr(b[i])]

HexDigits == <<"0","1","2","3","4","5","6","7","8","9","a","b","c","d","e","f">>

\* bytes.hex(): two lower-case hexadecimal digits per byte
Hex(S) ==
  [i \in 1..(2 * Len(S)) |->
     IF i % 2 = 1 THEN HexDigits[(S[(i + 1) \div 2] \div 16) + 1]
     ELSE HexDigits[(S[i \div 2] % 16) + 1]]

\* str(int) for a natural number
RECURSIVE Str(_)
Str(n) == IF n < 10 THEN <<HexDigits[n + 1]>> ELSE Str(n \div 10) \o <<HexDigits[(n % 10) + 1]>>

\* s[i:j] of Python, 0-based, end exclusive
Slice(s, i, j) == SubSeq(s, i + 1, IF j > Len(s) THEN Len(s) ELSE j)

\* str.startswith
StartsWith(s, p) == Len(p) <= Len(s) /\ SubSeq(s, 1, Len(p)) = p

\* str.endswith
EndsWith(s, p) == Len(p) <= Len(s) /\ SubSeq(s, Len(s) - Len(p) + 1, Len(s)) = p

\* the `in` operator on str
Contains(s, p) == \E i \in 1..(Len(s) - Len(p) + 1) : SubSeq(s, i, i + Len(p) - 1) = p

\* concatenation of pieces[lo..hi], by halves
RECURSIVE ConcatRange(_, _, _)
ConcatRange(pieces, lo, hi) ==
  IF lo > hi THEN <<>>
  ELSE IF lo = hi THEN pieces[lo]
  ELSE ConcatRange(pieces, lo, (lo + hi) \div 2)
         \o ConcatRange(pieces, ((lo + hi) \div 2) + 1, hi)

\* concatenation of a sequence of texts
Concat(ts) == ConcatRange(ts, 1, Len(ts))

\* sep.join(ts)
Join(sep, ts) ==
  Concat([i \in 1..Len(ts) |-> IF i = 1 THEN ts[i] ELSE sep \o ts[i]])

\* where old occurs in s
Occurrences(s, old) ==
  {i \in 1..(Len(s) - Len(old) + 1) : SubSeq(s, i, i + Len(old) - 1) = old}

\* the occurrences str.replace rewrites: scanning left to right, an occurrence counts
\* unless it overlaps one already taken
Replaced(s, old) ==
  CHOOSE C \in SUBSET Occurrences(s, old) :
    \A i \in Occurrences(s, old) :
      i \in C <=> ~(\E j \in C : j < i /\ i < j + Len(old))

\* str.replace(old, new), old not empty
Replace(s, old, new) ==
  Concat([i \in 1..Len(s) |->
            IF i \in Replaced(s, old) THEN new
            ELSE IF \E j \in Replaced(s, old) : j < i /\ i < j + Len(old) THEN <<>>
            ELSE <<s[i]>>])

(***************************************************************************)
(* Literals of conexion_aws.py                                             *)
(***************************************************************************)

NL ==
  <<"\n">>

EscapedNL ==
  <<"\\","n">>

PemCertHeader ==
  <<"-","-","-","-","-","B","E","G","I","N"," ","C","E","R","T","I","F","I","C","A","T","E","-","-","-","-","-">>

PemCertFooter ==
  <<"-","-","-","-","-","E","N","D"," ","C","E","R","T","I","F","I","C","A","T","E","-","-","-","-","-">>

PemKeyHeader ==
  <<"-","-","-","-","-","B","E","G","I","N"," ","P","R","I","V","A","T","E"," ","K","E","Y","-","-","-","-","-">>

PemKeyFooter ==
  <<"-","-","-","-","-","E","N","D"," ","P","R","I","V","A","T","E"," ","K","E","Y","-","-","-","-","-">>

HttpRequestMethod ==
  <<"P","O","S","T">>

CanonicalUri ==
  <<"/","s","e","s","s","i","o","n","s">>

CanonicalQueryString ==
  <<>>

Algorithm ==
  <<"A","W","S","4","-","H","M","A","C","-","S","H","A","2","5","6">>

ScopeSuffix ==
  <<"/","r","o","l","e","s","a","n","y","w","h","e","r","e","/","a","w","s","4","_","r","e","q","u","e","s","t">>

H_ContentType ==
  <<"C","o","n","t","e","n","t","-","T","y","p","e">>

H_Host ==
  <<"H","o","s","t">>

H_XAmzDate ==
  <<"X","-","A","m","z","-","D","a","t","e">>

H_XAmzX509 ==
  <<"X","-","A","m","z","-","X","5","0","9">>

H_Authorization ==
  <<"A","u","t","h","o","r","i","z","a","t","i","o","n">>

ApplicationJson ==
  <<"a","p","p","l","i","c","a","t","i","o","n","/","j","s","o","n">>

K_durationSeconds ==
  <<"d","u","r","a","t","i","o","n","S","e","c","o","n","d","s">>

K_roleArn ==
  <<"r","o","l","e","A","r","n">>

K_trustAnchorArn ==
  <<"t","r","u","s","t","A","n","c","h","o","r","A","r","n">>

K_profileArn ==
  <<"p","r","o","f","i","l","e","A","r","n">>

T_Credential ==
  <<" ","C","r","e","d","e","n","t","i","a","l","=">>

T_SignedHeaders ==
  <<","," ","S","i","g","n","e","d","H","e","a","d","e","r","s","=">>

T_Signature ==
  <<","," ","S","i","g","n","a","t","u","r","e","=">>

T_https ==
  <<"h","t","t","p","s",":","/","/">>

region ==
  <<"u","s","-","e","a","s","t","-","1">>

Placeholder ==
  <<"x","x","x","x","x","x","x">>

DotCsv ==
  <<".","c","s","v">>

ExcludedCsv ==
  <<"N","X","E","R","S","S","A","D","E","C","V","_","T","R","A","N","S","A","C","T","I","O","N","S","_","2","0","2","5","1","2","0",".","c","s","v">>

Name_a_csv ==
  <<"a",".","c","s","v">>

Name_b_csv ==
  <<"b",".","c","s","v">>

Name_notes_txt ==
  <<"n","o","t","e","s",".","t","x","t">>

Timestamp1 ==
  <<"2","0","2","5","0","1","0","1","T","0","0","0","0","0","0","Z">>

Timestamp2 ==
  <<"2","0","2","6","1","1","0","5","T","2","3","5","9","5","9","Z">>

PemBody ==
  <<"M","I","I","B","C","g","=","=">>

(***************************************************************************)
(* Library primitives used by conexion_aws.py                              *)
(***************************************************************************)
\* sum of f[lo..hi], by halves
RECURSIVE SumRange(_, _, _)
SumRange(f, lo, hi) ==
  IF lo > hi THEN 0
  ELSE IF lo = hi THEN f[lo]
  ELSE SumRange(f, lo, (lo + hi) \div 2) + SumRange(f, ((lo + hi) \div 2) + 1, hi)

\* Adler-32 of a byte sequence: a = 1 + the sum of the bytes, b = the sum of the
\* successive values of a, both modulo 65521; four bytes, b first
Adler(S) ==
  LET a == (1 + SumRange(S, 1, Len(S))) % 65521
      b == (Len(S) + SumRange([i \in 1..Len(S) |-> (Len(S) - i + 1) * S[i]], 1, Len(S))) % 65521
  IN <<b \div 256, b % 256, a \div 256, a % 256>>

\* SHA256(S): the digest of hashes.SHA256 is a library primitive; it is modelled by a
\* fixed-width checksum that is, like the digest, a function of exactly the bytes given
SHA256(S) == Adler(S)

\* sign(key, msg): PKCS#1 v1.5 over SHA-256 with the private key; modelled as the
\* keyed digest of the message digest
sign(key, msg) == SHA256(<<key.id>> \o SHA256(msg))

B64Alphabet ==
  <<"A","B","C","D","E","F","G","H","I","J","K","L","M","N","O","P","Q","R","S","T",
    "U","V","W","X","Y","Z","a","b","c","d","e","f","g","h","i","j","k","l","m","n",
    "o","p","q","r","s","t","u","v","w","x","y","z","0","1","2","3","4","5","6","7",
    "8","9","+","/">>

\* base64.b64encode(...).decode('utf-8')
RECURSIVE B64Encode(_)
B64Encode(b) ==
  IF b = <<>> THEN <<>>
  ELSE IF Len(b) = 1
       THEN <<B64Alphabet[(b[1] \div 4) + 1], B64Alphabet[((b[1] % 4) * 16) + 1], "=", "=">>
  ELSE IF Len(b) = 2
       THEN <<B64Alphabet[(b[1] \div 4) + 1],
              B64Alphabet[((b[1] % 4) * 16) + (b[2] \div 16) + 1],
              B64Alphabet[((b[2] % 16) * 4) + 1], "=">>
  ELSE <<B64Alphabet[(b[1] \div 4) + 1],
         B64Alphabet[((b[1] % 4) * 16) + (b[2] \div 16) + 1],
         B64Alphabet[((b[2] % 16) * 4) + (b[3] \div 64) + 1],
         B64Alphabet[(b[3] % 64) + 1]>> \o B64Encode(SubSeq(b, 4, Len(b)))

\* What a PEM loader needs of the text whatever the payload: a BEGIN line and an END
\* line, each delimited by a real line break
PemFramed(text, header, footer) ==
  Contains(text, header \o NL) /\ Contains(text, NL \o footer)

\* x509.load_pem_x509_certificate: the parsed certificate, or None when the loader
\* raises. der_ok is the loader's verdict on the payload between the PEM lines.
load_pem_x509_certificate(text, der_ok) ==
  IF PemFramed(text, PemCertHeader, PemCertFooter) /\ der_ok
  THEN [t |-> "Certificate", serial_number |-> 4660, der |-> <<48, 130, 1, 10>>]
  ELSE None

\* serialization.load_pem_private_key(password=None): the key handle, or None when
\* the loader raises
load_pem_private_key(text, der_ok) ==
  IF PemFramed(text, PemKeyHeader, PemKeyFooter) /\ der_ok
  THEN [t |-> "RSAPrivateKey", id |-> 7]
  ELSE None

(***************************************************************************)
(* Header maps: a dict is a sequence of <<key, value>> in insertion order  *)
(***************************************************************************)
DictHas(d, k) == \E i \in 1..Len(d) : d[i][1] = k

\* d[k] = v : overwrite in place, or insert at the end
DictSet(d, k, v) ==
  IF DictHas(d, k)
  THEN [i \in 1..Len(d) |-> IF d[i][1] = k THEN <<k, v>> ELSE d[i]]
  ELSE Append(d, <<k, v>>)

DictGet(d, k) == d[CHOOSE i \in 1..Len(d) : d[i][1] = k][2]

\* canonical_headers as it would be with the lines joined by line breaks instead of
\* each line ending with one
canonical_headers_joined(headers) ==
  Join(NL, [i \in 1..Len(headers) |-> Lowercase(headers[i][1]) \o <<":">> \o headers[i][2]])

\* canonical_headers(headers)
canonical_headers(headers) ==
  Concat([i \in 1..Len(headers) |->
            Lowercase(headers[i][1]) \o <<":">> \o headers[i][2] \o NL])

\* signed_headers as it would be if the names were listed last header first
signed_headers_reversed(headers) ==
  Join(<<";">>, [i \in 1..Len(headers) |-> Lowercase(headers[Len(headers) + 1 - i][1])])

\* signed_headers(headers)
signed_headers(headers) ==
  Join(<<";">>, [i \in 1..Len(headers) |-> Lowercase(headers[i][1])])

(***************************************************************************)
(* get_session, lines 96-165: pure steps                                   *)
(***************************************************************************)
\* lines 97-98 as they would be if only the first escaped newline were replaced
NormalizeCertificate_first(text) ==
  IF Contains(text, EscapedNL)
  THEN LET i == CHOOSE i \in Occurrences(text, EscapedNL) :
                  \A j \in Occurrences(text, EscapedNL) : i <= j
       IN SubSeq(text, 1, i - 1) \o NL \o SubSeq(text, i + 2, Len(text))
  ELSE text

\* lines 97-98: escaped newlines of the certificate text
NormalizeCertificate(text) ==
  IF Contains(text, EscapedNL) THEN Replace(text, EscapedNL, NL) ELSE text

\* lines 107-114: escaped newlines, else line breaks around a single-line key
NormalizePrivateKey(text) ==
  IF Contains(text, EscapedNL) THEN Replace(text, EscapedNL, NL)
  ELSE IF Contains(text, PemKeyHeader) /\ ~Contains(text, NL)
       THEN Replace(Replace(text, PemKeyHeader \o <<" ">>, PemKeyHeader \o NL),
                    <<" ">> \o PemKeyFooter, NL \o PemKeyFooter)
       ELSE text

\* line 124
CertB64(c) == B64Encode(c.der)

\* lines 131-136 as they would be if the timestamp were kept in a module-level variable
\* that the first invocation to read the clock fills and every later one reuses
BuildHeaders_cached(host, now, c) ==
  LET filled == {j \in DOMAIN inv : inv[j].RequestDateTime # <<>>}
      stamp == IF filled = {} THEN now ELSE inv[CHOOSE j \in filled : TRUE].RequestDateTime
  IN << <<H_ContentType, ApplicationJson>>,
        <<H_Host, host>>,
        <<H_XAmzDate, stamp>>,
        <<H_XAmzX509, CertB64(c)>> >>

\* lines 131-136
BuildHeaders(host, now, c) ==
  << <<H_ContentType, ApplicationJson>>,
     <<H_Host, host>>,
     <<H_XAmzDate, now>>,
     <<H_XAmzX509, CertB64(c)>> >>

\* line 139: the duration written into every payload
DurationSeconds == 3600

\* json.dumps of an int and of a str without characters to escape
JsonInt(n) == Str(n)

JsonStr(s) == <<"\"">> \o s \o <<"\"">>

\* json.dumps of a flat dict given as <<key, dumped value>> pairs: ", " between
\* items and ": " between key and value (the default separators)
JsonDumps(d) ==
  <<"{">> \o Join(<<",", " ">>,
                  [i \in 1..Len(d) |-> JsonStr(d[i][1]) \o <<":", " ">> \o d[i][2]])
        \o <<"}">>

\* lines 138-143
BuildPayload(role_arn_aws, trust_anchor_arn, profile_arn) ==
  Encode(JsonDumps(<< <<K_durationSeconds, JsonInt(DurationSeconds)>>,
                      <<K_roleArn, JsonStr(role_arn_aws)>>,
                      <<K_trustAnchorArn, JsonStr(trust_anchor_arn)>>,
                      <<K_profileArn, JsonStr(profile_arn)>> >>))

\* lines 145-155
BuildCanonicalRequest(headers, payload) ==
  HttpRequestMethod \o NL \o
  CanonicalUri \o NL \o
  CanonicalQueryString \o NL \o
  canonical_headers(headers) \o NL \o
  signed_headers(headers) \o NL \o
  Lowercase(Hex(SHA256(payload)))

\* line 158
BuildCredentialScope(now, reg) == Slice(now, 0, 8) \o <<"/">> \o reg \o ScopeSuffix

\* lines 159-160 as they would be if the clock were read again for the StringToSign
BuildStringToSign_reread(now, scope, canonical) ==
  Algorithm \o NL \o Timestamp2 \o NL \o scope \o NL \o Hex(SHA256(Encode(canonical)))

\* lines 159-160
BuildStringToSign(now, scope, canonical) ==
  Algorithm \o NL \o now \o NL \o scope \o NL \o Hex(SHA256(Encode(canonical)))

\* lines 161-163
BuildAuthorization(c, key, scope, headers, string_to_sign) ==
  Algorithm \o T_Credential \o Str(c.serial_number) \o <<"/">> \o scope
    \o T_SignedHeaders \o signed_headers(headers)
    \o T_Signature \o Hex(sign(key, Encode(string_to_sign)))

\* line 167
BuildUrl(host) == T_https \o host \o CanonicalUri

(***************************************************************************)
(* Inputs and environment                                                  *)
(***************************************************************************)
\* certificate strings a deployment may configure (line 134 / line 98 of the entry
\* points): PEM with real line breaks, PEM with escaped line breaks, PEM after a
\* leading blank, and the placeholder left in the template
CertPem == PemCertHeader \o NL \o PemBody \o NL \o PemCertFooter

CertEscaped == PemCertHeader \o EscapedNL \o PemBody \o EscapedNL \o PemCertFooter

CertLeadingBlank == <<" ">> \o CertPem

CertificateTexts == {CertPem, CertEscaped, CertLeadingBlank, Placeholder}

\* private-key strings: PEM, PEM with escaped line breaks, PEM on a single line with
\* blanks around the body, and the placeholder
KeyPem == PemKeyHeader \o NL \o PemBody \o NL \o PemKeyFooter

KeyEscaped == PemKeyHeader \o EscapedNL \o PemBody \o EscapedNL \o PemKeyFooter

KeySingleLine == PemKeyHeader \o <<" ">> \o PemBody \o <<" ">> \o PemKeyFooter

PrivateKeyTexts == {KeyPem, KeyEscaped, KeySingleLine, Placeholder}

\* host of the entry points, lines 140 / 105
host ==
  <<"r","o","l","e","s","a","n","y","w","h","e","r","e",".">> \o region \o
    <<".","a","m","a","z","o","n","a","w","s",".","c","o","m">>

\* ARNs of the entry points, lines 136-138 and 143
trust_anchor_arn == Placeholder

profile_arn == Placeholder

role_arn_aws == Placeholder

assume_rol_arn == Placeholder

\* readings of datetime.now(UTC).strftime('%Y%m%dT%H%M%SZ')
Timestamps == {Timestamp1, Timestamp2}

\* what the caller of the broker may ask for as duration; neither entry point nor
\* get_session (line 95) has a parameter that receives it
RequestedDurations == {None, [t |-> "int", v |-> 900], [t |-> "int", v |-> 3600]}

\* longest credentialSet the session endpoint returns
MaxCreds == 2

\* entries of a credentialSet, as lexemes of the response body and as parsed values
EntryLexemes == {"E1", "E2"}

EntryOf(lex) ==
  IF lex = "E1"
  THEN [credentials |-> [accessKeyId |-> "ASIA-RA-1", secretAccessKey |-> "secret-ra-1",
                         sessionToken |-> "token-ra-1"]]
  ELSE [credentials |-> [accessKeyId |-> "ASIA-RA-2", secretAccessKey |-> "secret-ra-2",
                         sessionToken |-> "token-ra-2"]]

\* sequences over S of length 0..n
SeqsUpTo(S, n) == UNION {[1..k -> S] : k \in 0..n}

\* the JSON text of a list
JsonListText(lexs) ==
  <<"[">> \o Join(<<",">>, [i \in 1..Len(lexs) |-> <<lexs[i]>>]) \o <<"]">>

\* response bodies, as sequences of lexemes: a credentialSet of 0..MaxCreds entries, an
\* error object, an empty object, a JSON list, an HTML page, a truncated object, and
\* bytes that are not UTF-8
CredentialBodies ==
  {<<"{", "credentialSet", ":">> \o JsonListText(es) \o <<"}">> :
     es \in SeqsUpTo(EntryLexemes, MaxCreds)}

OtherBodies ==
  { <<"{", "message", ":", "str:denied", "}">>,
    <<"{", "}">>,
    <<"[", "]">>,
    <<"<html>">>,
    <<"{", "credentialSet", ":", "[">>,
    <<"bytes:ff">> }

Responses ==
  [status_code : {200, 201, 403, 500}, content : CredentialBodies \cup OtherBodies]

\* Response.raise_for_status(): HTTPError for 4xx and 5xx
RaisesForStatus(r) == 400 <= r.status_code /\ r.status_code < 600

\* json value of a list text <<"[", e, ",", e, ..., "]">>, or JSONDecodeError
IsListText(ts) ==
  /\ Len(ts) >= 2 /\ ts[1] = "[" /\ ts[Len(ts)] = "]"
  /\ \/ Len(ts) = 2
     \/ /\ Len(ts) % 2 = 1
        /\ \A i \in 2..(Len(ts) - 1) :
             IF i % 2 = 0 THEN ts[i] \in EntryLexemes ELSE ts[i] = ","

ListValue(ts) ==
  [t |-> "list", v |-> [i \in 1..((Len(ts) - 1) \div 2) |-> EntryOf(ts[2 * i])]]

IsValueText(ts) == IsListText(ts) \/ (Len(ts) = 1 /\ ts[1] \in {"str:denied"})

ValueOf(ts) == IF IsListText(ts) THEN ListValue(ts) ELSE [t |-> "str", v |-> ts[1]]

\* Response.json(): a dict (<<key, value>> pairs), a list, or JSONDecodeError
ParseJson(ts) ==
  IF ts = <<"{", "}">> THEN [t |-> "dict", d |-> <<>>]
  ELSE IF /\ Len(ts) >= 5 /\ ts[1] = "{" /\ ts[3] = ":" /\ ts[Len(ts)] = "}"
          /\ ts[2] \in {"credentialSet", "message"}
          /\ IsValueText(SubSeq(ts, 4, Len(ts) - 1))
       THEN [t |-> "dict", d |-> << <<ts[2], ValueOf(SubSeq(ts, 4, Len(ts) - 1))>> >>]
  ELSE IF IsListText(ts) THEN ListValue(ts)
  ELSE [t |-> "JSONDecodeError"]

\* whether response.content.decode('utf-8') succeeds
Utf8Decodable(content) == \A i \in 1..Len(content) : content[i] # "bytes:ff"

\* lines 174 and 176: the exception raised from a handler; decoding the body for the
\* message may itself raise
ExchangeError(msg, cause, content) ==
  IF Utf8Decodable(content)
  THEN [t |-> "Exception", msg |-> msg, cause |-> cause, contenido |-> content]
  ELSE [t |-> "UnicodeDecodeError"]

\* dict.get(key): the value, or None
PyGet(d, k) == IF DictHas(d, k) THEN DictGet(d, k) ELSE None

\* Python truthiness of the values the broker tests with `not`
Falsy(x) == x = None \/ (x.t = "list" /\ x.v = <<>>)

\* HandleResponse as it would be if a body that is not JSON were swallowed and None
\* returned
HandleResponse_swallow(r) ==
  IF RaisesForStatus(r)
  THEN [do |-> "raise",
        exc |-> ExchangeError("Error HTTP",
                              [t |-> "HTTPError", status_code |-> r.status_code],
                              r.content)]
  ELSE IF ParseJson(r.content).t = "JSONDecodeError"
  THEN [do |-> "return", value |-> None]
  ELSE IF ParseJson(r.content).t = "list"
  THEN [do |-> "raise", exc |-> [t |-> "AttributeError"]]
  ELSE [do |-> "return", value |-> PyGet(ParseJson(r.content).d, "credentialSet")]

\* lines 170-176: what get_session does with the response: "return" a value or
\* "raise" an exception
HandleResponse(r) ==
  IF RaisesForStatus(r)
  THEN [do |-> "raise",
        exc |-> ExchangeError("Error HTTP",
                              [t |-> "HTTPError", status_code |-> r.status_code],
                              r.content)]
  ELSE IF ParseJson(r.content).t = "JSONDecodeError"
  THEN [do |-> "raise",
        exc |-> ExchangeError("Error JSON", [t |-> "JSONDecodeError"], r.content)]
  ELSE IF ParseJson(r.content).t = "list"
  THEN [do |-> "raise", exc |-> [t |-> "AttributeError"]]
  ELSE [do |-> "return", value |-> PyGet(ParseJson(r.content).d, "credentialSet")]

(***************************************************************************)
(* State after construction: an entry point is about to be called          *)
(***************************************************************************)
Init ==
  /\ entry \in {"bucket", "tabla"}
  /\ pc = "call_get_session"
  /\ requested_duration \in RequestedDurations
  /\ certificate_path \in CertificateTexts
  /\ private_key_path \in PrivateKeyTexts
  /\ new_session = None
  /\ BrokerLocalsEmpty
  /\ Idle("broker")

identity_vars == <<certificate_path, private_key_path, cert, private_key>>

request_vars == <<RequestDateTime, Headers, RequestPayload, CanonicalRequest,
                  CredentialScope, StringToSign, Authorization>>

escalation_vars == <<sts_session, new_session>>

downstream_vars == <<archivo, items, start_key, handed, scan_keys, service_calls>>

canonical_vars == <<header_map, payload_bytes, canonical_out, canonical_again>>

normalize_vars == <<pem_text, cert_parsed, key_parsed>>

slack_vars ==
  <<socket_mode_client, shared_data, slack_calls, slack_exc, slack_ops, slack_req>>

\* the variables no broker run touches
pure_vars == <<canonical_vars, normalize_vars, inv, slack_vars>>

\* the variables of a broker run
broker_vars == <<entry, pc, requested_duration, identity_vars, request_vars, response,
                 credentials_anywhere, escalation_vars, downstream_vars, result, exc,
                 posts, clients, calls>>

\* an exception leaves the entry point: neither entry point catches what get_session
\* or assume_role raise
Raise(e, events) ==
  /\ pc' = "raised"
  /\ exc' = e
  /\ calls' = calls \o events

(***************************************************************************)
(* get_session, conexion_aws.py lines 95-176                               *)
(***************************************************************************)
\* bucket line 146, tabla line 112: the entry point calls get_session
CallGetSession ==
  /\ pc = "call_get_session"
  /\ pc' = "load_cert"
  /\ calls' = Append(calls, "get_session")
  /\ UNCHANGED <<pure_vars, entry, requested_duration, identity_vars, request_vars, response,
                 credentials_anywhere, escalation_vars, downstream_vars, result, exc,
                 posts, clients>>

\* the PEM test as it would be if line 103 were missing
IsPemCertificate_unchecked(text) == TRUE

\* line 103: the PEM test on the normalised certificate text
IsPemCertificate(text) == StartsWith(text, PemCertHeader)

\* lines 96-104: normalise and parse the certificate, then test the PEM header
LoadCertificate ==
  /\ pc = "load_cert"
  /\ \E der_ok \in BOOLEAN :
       LET text == NormalizeCertificate(certificate_path)
           c == load_pem_x509_certificate(text, der_ok)
       IN /\ certificate_path' = text
          /\ IF c = None
             THEN /\ Raise([t |-> "Exception", msg |-> "Error al cargar el certificado"],
                           <<"get_session:raise">>)
                  /\ cert' = cert
             ELSE IF ~IsPemCertificate(text)
             THEN /\ Raise([t |-> "Exception", msg |-> "El certificado no es PEM"],
                           <<"get_session:raise">>)
                  /\ cert' = c
             ELSE /\ cert' = c
                  /\ pc' = "load_key"
                  /\ UNCHANGED <<exc, calls>>
  /\ UNCHANGED <<pure_vars, entry, requested_duration, private_key_path, private_key, request_vars,
                 response, credentials_anywhere, escalation_vars, downstream_vars,
                 result, posts, clients>>

\* lines 106-122: normalise and parse the private key
LoadPrivateKey ==
  /\ pc = "load_key"
  /\ \E der_ok \in BOOLEAN :
       LET text == NormalizePrivateKey(private_key_path)
           k == load_pem_private_key(text, der_ok)
       IN /\ private_key_path' = text
          /\ private_key' = k
          /\ IF k = None
             THEN Raise([t |-> "Exception", msg |-> "Error al cargar la clave privada"],
                        <<"get_session:raise">>)
             ELSE /\ pc' = "build"
                  /\ UNCHANGED <<exc, calls>>
  /\ UNCHANGED <<pure_vars, entry, requested_duration, certificate_path, cert, request_vars,
                 response, credentials_anywhere, escalation_vars, downstream_vars,
                 result, posts, clients>>

\* lines 124-165: read the clock, build headers and payload, canonicalise, sign
BuildRequest ==
  /\ pc = "build"
  /\ \E now \in Timestamps :
       LET hs == BuildHeaders(host, now, cert)
           payload == BuildPayload(role_arn_aws, trust_anchor_arn, profile_arn)
           canonical == BuildCanonicalRequest(hs, payload)
           scope == BuildCredentialScope(now, region)
           sts == BuildStringToSign(now, scope, canonical)
           auth == BuildAuthorization(cert, private_key, scope, hs, sts)
       IN /\ RequestDateTime' = now
          /\ RequestPayload' = payload
          /\ CanonicalRequest' = canonical
          /\ CredentialScope' = scope
          /\ StringToSign' = sts
          /\ Authorization' = auth
          /\ Headers' = DictSet(hs, H_Authorization, auth)
  /\ pc' = "post"
  /\ UNCHANGED <<pure_vars, entry, requested_duration, identity_vars, response,
                 credentials_anywhere, escalation_vars, downstream_vars, result, exc,
                 posts, clients, calls>>

\* lines 167-168: requests.post; the endpoint answers
Post ==
  /\ pc = "post"
  /\ posts' = Append(posts, [url |-> BuildUrl(host), headers |-> Headers,
                             data |-> RequestPayload])
  /\ calls' = Append(calls, "requests.post")
  /\ \E r \in Responses : response' = r
  /\ pc' = "handle_response"
  /\ UNCHANGED <<pure_vars, entry, requested_duration, identity_vars, request_vars,
                 credentials_anywhere, escalation_vars, downstream_vars, result, exc,
                 clients>>

\* GetSessionReturn as it would be with a retry: a failed exchange sends the request
\* once more
GetSessionReturn_retry ==
  /\ pc = "handle_response"
  /\ LET h == HandleResponse(response)
     IN IF h.do = "raise"
        THEN IF Len(posts) < 2
             THEN /\ pc' = "post"
                  /\ UNCHANGED <<credentials_anywhere, exc, calls>>
             ELSE /\ Raise(h.exc, <<"get_session:raise">>)
                  /\ UNCHANGED credentials_anywhere
        ELSE /\ credentials_anywhere' = h.value
             /\ calls' = Append(calls, "get_session:return")
             /\ pc' = "after_get_session"
             /\ UNCHANGED exc
  /\ UNCHANGED <<pure_vars, entry, requested_duration, identity_vars, request_vars, response,
                 escalation_vars, downstream_vars, result, posts, clients>>

\* lines 170-176: return the credentialSet field, or raise
GetSessionReturn ==
  /\ pc = "handle_response"
  /\ LET h == HandleResponse(response)
     IN IF h.do = "raise"
        THEN /\ Raise(h.exc, <<"get_session:raise">>)
             /\ UNCHANGED credentials_anywhere
        ELSE /\ credentials_anywhere' = h.value
             /\ calls' = Append(calls, "get_session:return")
             /\ pc' = "after_get_session"
             /\ UNCHANGED exc
  /\ UNCHANGED <<pure_vars, entry, requested_duration, identity_vars, request_vars, response,
                 escalation_vars, downstream_vars, result, posts, clients>>

(***************************************************************************)
(* assume_role, conexion_aws.py lines 178-200                              *)
(***************************************************************************)
\* boto3.Session(aws_access_key_id=..., aws_secret_access_key=..., aws_session_token=...)
Session(key_id, secret, token) ==
  [t |-> "Session", aws_access_key_id |-> key_id, aws_secret_access_key |-> secret,
   aws_session_token |-> token]

\* the temporary session as it would be if built from the last entry
FirstCredentialSession_last(credentials) ==
  Session(credentials.v[Len(credentials.v)].credentials.accessKeyId,
          credentials.v[Len(credentials.v)].credentials.secretAccessKey,
          credentials.v[Len(credentials.v)].credentials.sessionToken)

\* lines 179-183: the temporary session, from credentials[0]["credentials"]
FirstCredentialSession(credentials) ==
  Session(credentials.v[1].credentials.accessKeyId,
          credentials.v[1].credentials.secretAccessKey,
          credentials.v[1].credentials.sessionToken)

\* lines 192-196: the session built from the STS response
AssumedSession(sts_response) ==
  Session(sts_response.Credentials.AccessKeyId,
          sts_response.Credentials.SecretAccessKey,
          sts_response.Credentials.SessionToken)

\* answers of STS AssumeRole: the temporary credentials of the assumed role, a
\* provider-side error (ClientError) or a transport error (BotoCoreError)
StsOutcomes ==
  { [t |-> "ok", Credentials |-> [AccessKeyId |-> "ASIA-STS-1",
                                  SecretAccessKey |-> "secret-sts-1",
                                  SessionToken |-> "token-sts-1"]],
    [t |-> "ClientError"],
    [t |-> "BotoCoreError"] }

\* how an answer of STS shows in the trace
StsEvent(o) == IF o.t = "ok" THEN "sts:ok" ELSE IF o.t = "ClientError" THEN "sts:ClientError"
               ELSE "sts:BotoCoreError"

\* line 199 as it would be if only ClientError were caught
AssumeRoleCatches_client_only(e) == e.t \in {"ClientError"}

\* line 199: the exceptions assume_role turns into an absent session
AssumeRoleCatches(e) == e.t \in {"BotoCoreError", "ClientError"}

\* bucket lines 151-152: no credential set, the entry point returns None
BucketNoCredentials ==
  /\ pc = "after_get_session"
  /\ entry = "bucket"
  /\ Falsy(credentials_anywhere)
  /\ result' = None
  /\ pc' = "returned"
  /\ calls' = Append(calls, "entry:return")
  /\ UNCHANGED <<pure_vars, entry, requested_duration, identity_vars, request_vars, response,
                 credentials_anywhere, escalation_vars, downstream_vars, exc, posts,
                 clients>>

\* bucket line 154, tabla line 117: the entry point calls assume_role
CallAssumeRole ==
  /\ pc = "after_get_session"
  /\ entry = "bucket" => ~Falsy(credentials_anywhere)
  /\ pc' = "assume_role"
  /\ calls' = Append(calls, "assume_role")
  /\ UNCHANGED <<pure_vars, entry, requested_duration, identity_vars, request_vars, response,
                 credentials_anywhere, escalation_vars, downstream_vars, result, exc,
                 posts, clients>>

\* lines 179-185: temporary session from the first credential set, and its STS client
AssumeRoleSession ==
  /\ pc = "assume_role"
  /\ IF credentials_anywhere = None
     THEN /\ Raise([t |-> "TypeError"], <<"assume_role:raise">>)
          /\ UNCHANGED <<sts_session, clients>>
     ELSE IF credentials_anywhere.v = <<>>
     THEN /\ Raise([t |-> "IndexError"], <<"assume_role:raise">>)
          /\ UNCHANGED <<sts_session, clients>>
     ELSE /\ sts_session' = FirstCredentialSession(credentials_anywhere)
          /\ clients' = Append(clients, [service |-> "sts",
                                         session |-> FirstCredentialSession(credentials_anywhere)])
          /\ pc' = "sts_assume_role"
          /\ UNCHANGED <<exc, calls>>
  /\ UNCHANGED <<pure_vars, entry, requested_duration, identity_vars, request_vars, response,
                 credentials_anywhere, new_session, downstream_vars, result, posts>>

\* lines 187-200: the role-assumption call; a new session, or None on a caught error
StsAssumeRole ==
  /\ pc = "sts_assume_role"
  /\ \E o \in StsOutcomes :
       IF o.t = "ok"
       THEN /\ new_session' = AssumedSession(o)
            /\ calls' = calls \o <<"sts.assume_role", StsEvent(o), "assume_role:return">>
            /\ pc' = "after_assume_role"
            /\ UNCHANGED exc
       ELSE IF AssumeRoleCatches(o)
       THEN /\ new_session' = None
            /\ calls' = calls \o <<"sts.assume_role", StsEvent(o), "assume_role:return">>
            /\ pc' = "after_assume_role"
            /\ UNCHANGED exc
       ELSE /\ Raise(o, <<"sts.assume_role", StsEvent(o), "assume_role:raise">>)
            /\ UNCHANGED new_session
  /\ UNCHANGED <<pure_vars, entry, requested_duration, identity_vars, request_vars, response,
                 credentials_anywhere, sts_session, downstream_vars, result, posts,
                 clients>>

(***************************************************************************)
(* descargar_contenido_archivo, obtener_datos_bucket_aws.py                *)
(***************************************************************************)
\* most objects S3 lists under the prefix, and most entries of an archive
MaxKeys == 2

MaxEntries == 2

\* answers of list_objects_v2 the function accepts: a response with a Contents list
\* (S3 itself leaves the field out when nothing matches; a list without entries comes
\* from a stubbed or S3-compatible client), a response without the field, or ClientError
S3Listings ==
  {[t |-> "ok", Contents |-> ks] : ks \in SeqsUpTo({"k1", "k2"}, MaxKeys)}
    \cup {[t |-> "ok"], [t |-> "ClientError"]}

ZipNames == {Name_a_csv, Name_b_csv, Name_notes_txt, ExcludedCsv}

\* answers of get_object: ClientError, bytes that are no ZIP, or an archive
S3Objects ==
  {[t |-> "zip", namelist |-> ns] : ns \in SeqsUpTo(ZipNames, MaxEntries)}
    \cup {[t |-> "BadZipFile"], [t |-> "ClientError"]}

\* pd.read_csv(archivo, dtype=str): the rows of one entry
read_csv(name) ==
  IF name = Name_a_csv THEN <<[src |-> "a", n |-> 1], [src |-> "a", n |-> 2]>>
  ELSE IF name = Name_b_csv THEN <<[src |-> "b", n |-> 1]>>
  ELSE <<[src |-> "other", n |-> 1]>>

\* line 106 as it would be if every entry of the archive were read
ReadsEntry_any(nombre_archivo) == TRUE

\* line 106: the entries leer_zip_s3 reads
ReadsEntry(nombre_archivo) ==
  EndsWith(nombre_archivo, DotCsv) /\ ~(nombre_archivo = ExcludedCsv)

\* lines 102-110: the DataFrames, in archive order
RECURSIVE DataFrames(_)
DataFrames(namelist) ==
  IF namelist = <<>> THEN <<>>
  ELSE IF ReadsEntry(namelist[1])
       THEN <<read_csv(namelist[1])>> \o DataFrames(Tail(namelist))
       ELSE DataFrames(Tail(namelist))

\* lines 112-117: pd.concat(dataframes, ignore_index=True), or None
ZipResult(namelist) ==
  IF DataFrames(namelist) # <<>>
  THEN [t |-> "DataFrame", rows |-> Concat(DataFrames(namelist))]
  ELSE None

\* lines 79-82: the key of the first object listed (None when the loop body never runs)
FirstKey(listing) ==
  IF listing.Contents # <<>> THEN [t |-> "str", v |-> listing.Contents[1]] ELSE None

\* bucket line 155 as it would be without the test
BucketHasSession_untested == TRUE

\* bucket lines 158 and 164 as they would be if the temporary session were passed on
BucketCollaboratorSession_unescalated == sts_session

\* bucket line 155: the test that lets the workflow go on
BucketHasSession == ~Falsy(new_session)

\* bucket lines 158 and 164: the session passed to the collaborators
BucketCollaboratorSession == new_session

\* bucket lines 155-156: no session, the entry point returns None
BucketNoSession ==
  /\ pc = "after_assume_role"
  /\ entry = "bucket"
  /\ ~BucketHasSession
  /\ result' = None
  /\ pc' = "returned"
  /\ calls' = Append(calls, "entry:return")
  /\ UNCHANGED <<pure_vars, entry, requested_duration, identity_vars, request_vars, response,
                 credentials_anywhere, escalation_vars, downstream_vars, exc, posts,
                 clients>>

\* arguments of descargar_contenido_archivo: the folder and the date asked for
carpeta == <<"d","a","t","o","s">>

fecha == <<"2","0","2","5","-","0","1","-","3","1">>

\* line 76: the prefix the objects are listed under
Prefix(folder, fecha_objetivo) == folder \o <<"/">> \o fecha_objetivo \o <<"/">>

\* bucket lines 158-161 and obtener_archivo_por_fecha, lines 69-94
ObtenerArchivoPorFecha ==
  /\ pc = "after_assume_role"
  /\ entry = "bucket"
  /\ BucketHasSession
  /\ handed' = Append(handed, [to |-> "obtener_archivo_por_fecha",
                               session |-> BucketCollaboratorSession])
  /\ clients' = Append(clients, [service |-> "s3", session |-> BucketCollaboratorSession])
  /\ \E listing \in S3Listings :
       /\ service_calls' = Append(service_calls,
                                  [op |-> "list_objects_v2",
                                   Prefix |-> Prefix(carpeta, fecha),
                                   response |-> listing])
       /\ IF listing.t = "ClientError"
          THEN /\ Raise([t |-> "ClientError"], <<"s3.list_objects_v2", "entry:raise">>)
               /\ UNCHANGED <<archivo, result>>
          ELSE IF "Contents" \notin DOMAIN listing
          THEN /\ Raise([t |-> "FileNotFoundError"],
                        <<"s3.list_objects_v2", "entry:raise">>)
               /\ UNCHANGED <<archivo, result>>
          ELSE /\ archivo' = FirstKey(listing)
               /\ IF Falsy(FirstKey(listing))
                  THEN /\ pc' = "returned"
                       /\ calls' = calls \o <<"s3.list_objects_v2", "entry:return">>
                  ELSE /\ pc' = "leer_zip"
                       /\ calls' = Append(calls, "s3.list_objects_v2")
               /\ UNCHANGED <<result, exc>>
  /\ UNCHANGED <<pure_vars, entry, requested_duration, identity_vars, request_vars, response,
                 credentials_anywhere, escalation_vars, items, start_key, scan_keys,
                 posts>>

\* bucket line 164 and leer_zip_s3, lines 96-129
LeerZipS3 ==
  /\ pc = "leer_zip"
  /\ handed' = Append(handed, [to |-> "leer_zip_s3", session |-> BucketCollaboratorSession])
  /\ clients' = Append(clients, [service |-> "s3", session |-> BucketCollaboratorSession])
  /\ \E object \in S3Objects :
       /\ service_calls' = Append(service_calls,
                                  [op |-> "get_object", Key |-> archivo.v,
                                   response |-> object])
       /\ IF object.t \in {"ClientError", "BadZipFile"}
          THEN /\ Raise([t |-> object.t], <<"s3.get_object", "entry:raise">>)
               /\ UNCHANGED result
          ELSE /\ result' = ZipResult(object.namelist)
               /\ pc' = "returned"
               /\ calls' = calls \o <<"s3.get_object", "entry:return">>
               /\ UNCHANGED exc
  /\ UNCHANGED <<pure_vars, entry, requested_duration, identity_vars, request_vars, response,
                 credentials_anywhere, escalation_vars, archivo, items, start_key,
                 scan_keys, posts>>

(***************************************************************************)
(* obtener_datos_tabla, obtener_datos_tabla_aws.py                         *)
(***************************************************************************)
\* most scans one run of listar_items_dynamodb issues
MaxScans == 3

\* pages of a scan: Items, and LastEvaluatedKey when more pages follow
ItemPages == {<<>>, <<"item-a">>, <<"item-b">>}

ScanOutcomes(last) ==
  {[t |-> "ok", Items |-> p] : p \in ItemPages}
    \cup (IF last THEN {}
          ELSE {[t |-> "ok", Items |-> p, LastEvaluatedKey |-> k] :
                  p \in ItemPages,
                  k \in {[t |-> "key", v |-> "K1"], [t |-> "key", v |-> "K2"]}})
    \cup {[t |-> "ClientError"]}

\* line 89: response.get("LastEvaluatedKey")
LastEvaluatedKey(o) == IF "LastEvaluatedKey" \in DOMAIN o THEN o.LastEvaluatedKey ELSE None

\* tabla line 119 as it would be without the test
TablaHasSession_untested == TRUE

\* tabla line 119: the test that lets the scan start
TablaHasSession == ~Falsy(new_session)

\* tabla line 122: the session passed to the collaborator
TablaCollaboratorSession == new_session

\* tabla lines 128-130: no session; the bare raise has no active exception
TablaNoSession ==
  /\ pc = "after_assume_role"
  /\ entry = "tabla"
  /\ ~TablaHasSession
  /\ Raise([t |-> "RuntimeError"], <<"entry:raise">>)
  /\ UNCHANGED <<pure_vars, entry, requested_duration, identity_vars, request_vars, response,
                 credentials_anywhere, escalation_vars, downstream_vars, result, posts,
                 clients>>

\* tabla line 122 and listar_items_dynamodb, lines 73-76
ListarItemsDynamodb ==
  /\ pc = "after_assume_role"
  /\ entry = "tabla"
  /\ TablaHasSession
  /\ handed' = Append(handed, [to |-> "listar_items_dynamodb",
                               session |-> TablaCollaboratorSession])
  /\ clients' = Append(clients, [service |-> "dynamodb", session |-> TablaCollaboratorSession])
  /\ items' = <<>>
  /\ start_key' = None
  /\ pc' = "scan"
  /\ UNCHANGED <<pure_vars, entry, requested_duration, identity_vars, request_vars, response,
                 credentials_anywhere, escalation_vars, archivo, scan_keys,
                 service_calls, result, exc, posts, calls>>

\* lines 83-84 as they would be if the token were never passed on
ExclusiveStartKey_dropped(key) == None

\* lines 83-84: the ExclusiveStartKey of the next scan (None: the parameter is left out)
ExclusiveStartKey(key) == IF Falsy(key) THEN None ELSE key

\* listar_items_dynamodb lines 78-94, one turn of the loop; tabla lines 124-127
Scan ==
  /\ pc = "scan"
  /\ Len(scan_keys) < MaxScans
  /\ scan_keys' = Append(scan_keys, ExclusiveStartKey(start_key))
  /\ \E o \in ScanOutcomes(Len(scan_keys) + 1 = MaxScans) :
       /\ service_calls' = Append(service_calls,
                                  [op |-> "scan",
                                   ExclusiveStartKey |-> ExclusiveStartKey(start_key),
                                   response |-> o])
       /\ IF o.t = "ClientError"
          THEN /\ Raise([t |-> "ClientError"], <<"dynamodb.scan", "entry:raise">>)
               /\ UNCHANGED <<items, start_key, result>>
          ELSE /\ items' = items \o o.Items
               /\ start_key' = LastEvaluatedKey(o)
               /\ IF Falsy(LastEvaluatedKey(o))
                  THEN /\ result' = [t |-> "list", v |-> items \o o.Items]
                       /\ pc' = "returned"
                       /\ calls' = calls \o <<"dynamodb.scan", "entry:return">>
                  ELSE /\ pc' = "scan"
                       /\ calls' = Append(calls, "dynamodb.scan")
                       /\ UNCHANGED result
               /\ UNCHANGED exc
  /\ UNCHANGED <<pure_vars, entry, requested_duration, identity_vars, request_vars, response,
                 credentials_anywhere, escalation_vars, archivo, handed, posts, clients>>

Next ==
  \/ CallGetSession
  \/ LoadCertificate
  \/ LoadPrivateKey
  \/ BuildRequest
  \/ Post
  \/ GetSessionReturn
  \/ BucketNoCredentials
  \/ CallAssumeRole
  \/ AssumeRoleSession
  \/ StsAssumeRole
  \/ BucketNoSession
  \/ ObtenerArchivoPorFecha
  \/ LeerZipS3
  \/ TablaNoSession
  \/ ListarItemsDynamodb
  \/ Scan

Spec == Init /\ [][Next]_vars

(***************************************************************************)
(* listar_items_dynamodb on its own: called with a session, it runs to its *)
(* end; the table answers every scan, and within MaxScans scans it answers *)
(* one of them without a continuation token                                *)
(***************************************************************************)
\* tabla line 122: the scanner is called with the session of a successful escalation
InitScan ==
  /\ entry = "tabla"
  /\ pc = "after_assume_role"
  /\ requested_duration = None
  /\ certificate_path = <<>>
  /\ private_key_path = <<>>
  /\ new_session \in {AssumedSession(o) : o \in {x \in StsOutcomes : x.t = "ok"}}
  /\ BrokerLocalsEmpty
  /\ Idle("broker")

\* the interpreter runs every statement it reaches: a call that is ready is made
SpecScan ==
  /\ InitScan
  /\ [][ListarItemsDynamodb \/ Scan]_vars
  /\ WF_vars(ListarItemsDynamodb)
  /\ WF_vars(Scan)

(***************************************************************************)
(* The canonical request builder on its own: lines 82-86 and 145-155 for   *)
(* header maps and payloads drawn from bounded sets                        *)
(***************************************************************************)
\* most headers of a drawn header map, and longest drawn payload
MaxHeaders == 2

MaxPayloadLen == 1

\* header maps: keys are distinct, order is insertion order
HeaderMaps ==
  {m \in SeqsUpTo({H_Host, H_XAmzDate, <<"a", "B">>} \X {<<"v">>, <<"V", "1">>, <<>>},
                  MaxHeaders) :
     \A i, j \in 1..Len(m) : i # j => m[i][1] # m[j][1]}

Payloads == SeqsUpTo({0, 10, 123, 255}, MaxPayloadLen)

\* the idle broker: no entry point runs while the builder is exercised
InitCanonical ==
  /\ header_map \in HeaderMaps
  /\ payload_bytes \in Payloads
  /\ canonical_out = <<>>
  /\ canonical_again = <<>>
  /\ Idle("canonical")

\* lines 145-155 applied to the drawn header map and payload
Canonicalize ==
  /\ pc = "idle"
  /\ canonical_out = <<>>
  /\ canonical_out' = BuildCanonicalRequest(header_map, payload_bytes)
  /\ UNCHANGED <<header_map, payload_bytes, canonical_again, broker_vars, normalize_vars,
                 inv, slack_vars>>

\* lines 145-155 applied once more to the same header map and payload
Recanonicalize ==
  /\ pc = "idle"
  /\ canonical_out # <<>>
  /\ canonical_again = <<>>
  /\ canonical_again' = BuildCanonicalRequest(header_map, payload_bytes)
  /\ UNCHANGED <<header_map, payload_bytes, canonical_out, broker_vars, normalize_vars,
                 inv, slack_vars>>

NextCanonical ==
  \/ Canonicalize
  \/ Recanonicalize

SpecCanonical == InitCanonical /\ [][NextCanonical]_vars

(***************************************************************************)
(* The identity normalisation on its own: lines 97-98 and 107-114 for      *)
(* certificate and key strings drawn from a bounded set                    *)
(***************************************************************************)
\* longest string drawn over the characters backslash, n, line break and x
MaxTextLen == 3

\* strings a caller may pass as certificate_path or private_key_path (line 95): a PEM
\* header, body and footer of either kind, separated by nothing, a blank, a line break
\* or an escaped line break, with or without an escaped line break at the end; and
\* every short string over four characters
PemTexts ==
  {h[1] \o sep1 \o PemBody \o sep2 \o h[2] \o tail :
     h \in {<<PemCertHeader, PemCertFooter>>, <<PemKeyHeader, PemKeyFooter>>},
     sep1 \in {<<>>, <<" ">>, NL, EscapedNL},
     sep2 \in {<<>>, <<" ">>, NL, EscapedNL},
     tail \in {<<>>, EscapedNL}}
    \cup SeqsUpTo({"\\", "n", "\n", "x"}, MaxTextLen)

InitNormalize ==
  /\ pem_text \in PemTexts
  /\ cert_parsed = None
  /\ key_parsed = None
  /\ Idle("normalize")

\* lines 97-99 and 107-117 applied to the drawn string: the texts the certificate
\* parser and the private-key parser are given
NormalizeIdentity ==
  /\ pc = "idle"
  /\ cert_parsed = None
  /\ cert_parsed' = [t |-> "str", v |-> NormalizeCertificate(pem_text)]
  /\ key_parsed' = [t |-> "str", v |-> NormalizePrivateKey(pem_text)]
  /\ UNCHANGED <<pem_text, broker_vars, canonical_vars, inv, slack_vars>>

SpecNormalize == InitNormalize /\ [][NormalizeIdentity]_vars

(***************************************************************************)
(* Two invocations of get_session / assume_role running concurrently, as   *)
(* two workloads (or threads) calling the broker would; each has the       *)
(* locals of conexion_aws.py lines 95-200, and a step of one interleaves   *)
(* with the steps of the other at the parse, clock and network boundaries  *)
(***************************************************************************)
Invocations == {1, 2}

\* each invocation is called with its own certificate, key and role (line 95)
InitConcurrent ==
  /\ inv \in [Invocations ->
               {[pc |-> "load", certificate_path |-> c, private_key_path |-> KeyPem,
                 role_arn_aws |-> r, cert |-> None, private_key |-> None,
                 RequestDateTime |-> <<>>, Headers |-> <<>>, RequestPayload |-> <<>>,
                 Authorization |-> <<>>, response |-> None,
                 credentials_anywhere |-> None, sts_session |-> None,
                 sts_answer |-> None, new_session |-> None, exc |-> None] :
                  c \in {CertEscaped, Placeholder},
                  r \in {Placeholder, <<"a","r","n",":","2">>}}]
  /\ Idle("concurrent")

\* lines 96-122 in invocation i: normalise and parse the certificate and the key
InvLoadIdentity(i) ==
  /\ inv[i].pc = "load"
  /\ LET v == inv[i]
         ctext == NormalizeCertificate(v.certificate_path)
         c == load_pem_x509_certificate(ctext, TRUE)
         ktext == NormalizePrivateKey(v.private_key_path)
         k == load_pem_private_key(ktext, TRUE)
     IN inv' = [inv EXCEPT ![i] =
                  IF c = None
                  THEN [v EXCEPT !.pc = "raised", !.certificate_path = ctext,
                                 !.exc = [t |-> "Exception",
                                          msg |-> "Error al cargar el certificado"]]
                  ELSE IF ~IsPemCertificate(ctext)
                  THEN [v EXCEPT !.pc = "raised", !.certificate_path = ctext, !.cert = c,
                                 !.exc = [t |-> "Exception",
                                          msg |-> "El certificado no es PEM"]]
                  ELSE IF k = None
                  THEN [v EXCEPT !.pc = "raised", !.certificate_path = ctext, !.cert = c,
                                 !.private_key_path = ktext,
                                 !.exc = [t |-> "Exception",
                                          msg |-> "Error al cargar la clave privada"]]
                  ELSE [v EXCEPT !.pc = "build", !.certificate_path = ctext, !.cert = c,
                                 !.private_key_path = ktext, !.private_key = k]]
  /\ UNCHANGED <<broker_vars, canonical_vars, normalize_vars, slack_vars>>

\* lines 124-165 in invocation i: read the clock, build headers and payload, sign
InvBuildRequest(i) ==
  /\ inv[i].pc = "build"
  /\ \E now \in Timestamps :
       LET v == inv[i]
           hs == BuildHeaders(host, now, v.cert)
           payload == BuildPayload(v.role_arn_aws, trust_anchor_arn, profile_arn)
           scope == BuildCredentialScope(now, region)
           sts == BuildStringToSign(now, scope, BuildCanonicalRequest(hs, payload))
           auth == BuildAuthorization(v.cert, v.private_key, scope, hs, sts)
       IN inv' = [inv EXCEPT ![i] =
                    [v EXCEPT !.pc = "post", !.RequestDateTime = now,
                              !.Headers = DictSet(hs, H_Authorization, auth),
                              !.RequestPayload = payload, !.Authorization = auth]]
  /\ UNCHANGED <<broker_vars, canonical_vars, normalize_vars, slack_vars>>

\* lines 167-176 in invocation i: the POST, its answer, and what get_session makes of it
InvExchange(i) ==
  /\ inv[i].pc = "post"
  /\ \E r \in {x \in Responses :
                  /\ x.status_code \in {200, 403}
                  /\ x.content \in {<<"{", "credentialSet", ":", "[", e, "]", "}">> :
                                       e \in EntryLexemes}} :
       LET v == inv[i]
           h == HandleResponse(r)
       IN inv' = [inv EXCEPT ![i] =
                    IF h.do = "raise"
                    THEN [v EXCEPT !.pc = "raised", !.response = r, !.exc = h.exc]
                    ELSE [v EXCEPT !.pc = "assume", !.response = r,
                                   !.credentials_anywhere = h.value]]
  /\ UNCHANGED <<broker_vars, canonical_vars, normalize_vars, slack_vars>>

\* lines 178-200 in invocation i: assume_role with the credential set of invocation i
InvAssumeRole(i) ==
  /\ inv[i].pc = "assume"
  /\ \E o \in StsOutcomes :
       LET v == inv[i]
       IN inv' = [inv EXCEPT ![i] =
                    IF o.t = "ok"
                    THEN [v EXCEPT !.pc = "done", !.sts_answer = o,
                                   !.sts_session = FirstCredentialSession(v.credentials_anywhere),
                                   !.new_session = AssumedSession(o)]
                    ELSE IF AssumeRoleCatches(o)
                    THEN [v EXCEPT !.pc = "done", !.sts_answer = o,
                                   !.sts_session = FirstCredentialSession(v.credentials_anywhere)]
                    ELSE [v EXCEPT !.pc = "raised", !.sts_answer = o, !.exc = o,
                                   !.sts_session = FirstCredentialSession(v.credentials_anywhere)]]
  /\ UNCHANGED <<broker_vars, canonical_vars, normalize_vars, slack_vars>>

SpecConcurrent ==
  InitConcurrent /\
    [][\E i \in Invocations :
         \/ InvLoadIdentity(i)
         \/ InvBuildRequest(i)
         \/ InvExchange(i)
         \/ InvAssumeRole(i)]_vars

(***************************************************************************)
(* SlackClient, Slack/slack_bot.py: the module's instance and the          *)
(* operations a program performs on it, in any order                       *)
(***************************************************************************)
\* most operations performed on the client in one run
MaxOps == 3

\* self.channel_ids of the module's instance (lines 32, 40, 260): CHANNEL_IDS is a
\* tuple, not a list, so the list built at line 40 has the tuple as its one element
channel_ids == <<"('XXXXX', 'YYYYY')">>

\* values a caller passes to set_shared_data: None, an empty dict, a dict that still
\* holds the user of an earlier submission
SharedDatas ==
  {None, [t |-> "dict", d |-> <<>>], [t |-> "dict", d |-> << <<"user_id", "U0">> >>]}

\* requests Socket Mode delivers to the listener: a message event, a pressed button,
\* a submitted modal (with and without envelope id), another interaction
SlackRequests ==
  { [type |-> "events_api", envelope_id |-> "env-1", payload |-> [type |-> "message"]],
    [type |-> "interactive", envelope_id |-> "env-2",
     payload |-> [type |-> "block_actions", trigger_id |-> "T1"]],
    [type |-> "interactive", envelope_id |-> "env-3",
     payload |-> [type |-> "view_closed"]] }
  \cup
  { [type |-> "interactive", envelope_id |-> e,
     payload |-> [type |-> "view_submission", user |-> "U1",
                  values |-> [fecha_inicio |-> "2025-01-01", fecha_fin |-> "2025-01-31",
                              field_1 |-> "v1", field_2 |-> "v2", field_3 |-> "v3",
                              field_4 |-> "v4", field_5 |-> "v5", field_6 |-> "v6",
                              field_7 |-> "v7"]]] : e \in {"", "env-4"} }

\* a Slack Web API call answers, or raises SlackApiError
ApiOutcomes == {"ok", "SlackApiError"}

\* lines 38-41: the client after __init__; shared_data is not assigned
InitSlack ==
  /\ socket_mode_client = None
  /\ shared_data = Unset
  /\ slack_calls = <<>>
  /\ slack_exc = None
  /\ slack_ops = 0
  /\ slack_req = None
  /\ Idle("slack")

\* lines 44-49: set_shared_data
SetSharedData ==
  /\ slack_ops < MaxOps
  /\ \E d \in SharedDatas : shared_data' = d
  /\ slack_exc' = None
  /\ slack_req' = None
  /\ slack_ops' = slack_ops + 1
  /\ UNCHANGED <<socket_mode_client, slack_calls, broker_vars, canonical_vars,
                 normalize_vars, inv>>

\* lines 52-66: start_socket_mode; the constructor or connect() may raise, and the
\* handler of line 65 logs whatever is raised
StartSocketMode ==
  /\ slack_ops < MaxOps
  /\ \E outcome \in {"connected", "constructor raises", "connect raises"} :
       IF outcome = "constructor raises"
       THEN UNCHANGED <<socket_mode_client, slack_calls>>
       ELSE /\ socket_mode_client' = [t |-> "SocketModeClient",
                                      listeners |-> <<"process">>,
                                      connected |-> (outcome = "connected")]
            /\ slack_calls' = Append(slack_calls,
                                     [api |-> "connect", via |-> "socket", arg |-> "",
                                      outcome |-> outcome])
  /\ slack_exc' = None
  /\ slack_req' = None
  /\ slack_ops' = slack_ops + 1
  /\ UNCHANGED <<shared_data, broker_vars, canonical_vars, normalize_vars, inv>>

\* lines 134-143: the ten assignments into the shared dict, in order
StoreSubmission(d, payload) ==
  DictSet(DictSet(DictSet(DictSet(DictSet(DictSet(DictSet(DictSet(DictSet(DictSet(d,
    "fecha_inicio", payload.values.fecha_inicio),
    "fecha_fin", payload.values.fecha_fin),
    "field_1", payload.values.field_1),
    "field_2", payload.values.field_2),
    "field_3", payload.values.field_3),
    "field_4", payload.values.field_4),
    "field_5", payload.values.field_5),
    "field_6", payload.values.field_6),
    "field_7", payload.values.field_7),
    "user_id", payload.user)

\* the test of lines 204 and 224 left out
SocketModeReady_always == TRUE

\* lines 204 and 224: the test that lets a message or a Home Tab go out
SocketModeReady == ~Falsy(socket_mode_client)

\* lines 69-143: process, called by the connected Socket Mode client with a request
Process ==
  /\ slack_ops < MaxOps
  /\ socket_mode_client # None
  /\ socket_mode_client.connected
  /\ \E req \in SlackRequests, outcome \in ApiOutcomes :
       LET ack == IF req.envelope_id # ""
                  THEN <<[api |-> "send_socket_mode_response", via |-> "socket",
                          arg |-> req.envelope_id, outcome |-> "ok"]>>
                  ELSE <<>>
       IN /\ slack_req' = req
          /\ IF req.type = "interactive" /\ req.payload.type = "block_actions"
             THEN /\ slack_calls' = slack_calls \o ack \o
                                      <<[api |-> "views_open", via |-> "socket",
                                         arg |-> req.payload.trigger_id,
                                         outcome |-> outcome]>>
                  /\ slack_exc' = None
                  /\ UNCHANGED shared_data
             ELSE /\ outcome = "ok"
                  /\ slack_calls' = slack_calls \o ack
                  /\ IF req.type = "interactive" /\ req.payload.type = "view_submission"
                     THEN IF shared_data = Unset
                          THEN /\ slack_exc' = [t |-> "AttributeError"]
                               /\ UNCHANGED shared_data
                          ELSE IF shared_data = None
                          THEN /\ slack_exc' = None
                               /\ UNCHANGED shared_data
                          ELSE /\ slack_exc' = None
                               /\ shared_data' =
                                    [t |-> "dict",
                                     d |-> StoreSubmission(shared_data.d, req.payload)]
                     ELSE /\ slack_exc' = None
                          /\ UNCHANGED shared_data
  /\ slack_ops' = slack_ops + 1
  /\ UNCHANGED <<socket_mode_client, broker_vars, canonical_vars, normalize_vars, inv>>

\* lines 146-177: enviar_mensaje_con_boton, one chat_postMessage per channel through
\* the Web API client
EnviarMensajeConBoton ==
  /\ slack_ops < MaxOps
  /\ \E outs \in [1..Len(channel_ids) -> ApiOutcomes] :
       slack_calls' = slack_calls \o
         [k \in 1..Len(channel_ids) |->
            [api |-> "chat_postMessage", via |-> "web", arg |-> channel_ids[k],
             outcome |-> outs[k]]]
  /\ slack_exc' = None
  /\ slack_req' = None
  /\ slack_ops' = slack_ops + 1
  /\ UNCHANGED <<socket_mode_client, shared_data, broker_vars, canonical_vars,
                 normalize_vars, inv>>

\* lines 180-195: enviar_mensaje_via_webhook, one HTTP POST to the webhook
EnviarMensajeViaWebhook ==
  /\ slack_ops < MaxOps
  /\ \E outcome \in {"ok", "RequestException"} :
       slack_calls' = Append(slack_calls,
                            [api |-> "requests.post", via |-> "http", arg |-> "endpoint",
                             outcome |-> outcome])
  /\ slack_exc' = None
  /\ slack_req' = None
  /\ slack_ops' = slack_ops + 1
  /\ UNCHANGED <<socket_mode_client, shared_data, broker_vars, canonical_vars,
                 normalize_vars, inv>>

\* lines 198-216: enviar_mensaje_via_websocket
EnviarMensajeViaWebsocket ==
  /\ slack_ops < MaxOps
  /\ IF ~SocketModeReady
     THEN UNCHANGED slack_calls
     ELSE \E outs \in [1..Len(channel_ids) -> ApiOutcomes] :
            slack_calls' = slack_calls \o
              [k \in 1..Len(channel_ids) |->
                 [api |-> "chat_postMessage", via |-> "socket", arg |-> channel_ids[k],
                  outcome |-> outs[k]]]
  /\ slack_exc' = None
  /\ slack_req' = None
  /\ slack_ops' = slack_ops + 1
  /\ UNCHANGED <<socket_mode_client, shared_data, broker_vars, canonical_vars,
                 normalize_vars, inv>>

\* lines 219-257: publicar_home_tab
PublicarHomeTab ==
  /\ slack_ops < MaxOps
  /\ IF ~SocketModeReady
     THEN UNCHANGED slack_calls
     ELSE \E user_id \in {"U1"}, outcome \in ApiOutcomes :
            slack_calls' = Append(slack_calls,
                                 [api |-> "views_publish", via |-> "socket",
                                  arg |-> user_id, outcome |-> outcome])
  /\ slack_exc' = None
  /\ slack_req' = None
  /\ slack_ops' = slack_ops + 1
  /\ UNCHANGED <<socket_mode_client, shared_data, broker_vars, canonical_vars,
                 normalize_vars, inv>>

SpecSlack ==
  InitSlack /\
    [][\/ SetSharedData
       \/ StartSocketMode
       \/ Process
       \/ EnviarMensajeConBoton
       \/ EnviarMensajeViaWebhook
       \/ EnviarMensajeViaWebsocket
       \/ PublicarHomeTab]_vars

(***************************************************************************)
(* Properties                                                              *)
(***************************************************************************)
\* where an event occurs in the trace
Positions(e) == {i \in 1..Len(calls) : calls[i] = e}

Occurs(e) == Positions(e) # {}

StageEvents ==
  {"get_session", "requests.post", "assume_role", "sts.assume_role",
   "s3.list_objects_v2", "s3.get_object", "dynamodb.scan"}

DownstreamEvents == {"s3.list_objects_v2", "s3.get_object", "dynamodb.scan"}

RaiseEvents == {"get_session:raise", "assume_role:raise", "entry:raise"}

\* a stage fails at position i: it raises, or assume_role returns no session
FailureAt(i) ==
  \/ calls[i] \in RaiseEvents
  \/ calls[i] = "assume_role:return" /\ new_session = None

Terminal == pc \in {"returned", "raised"}

\* C1: the stages of a run happen in the order get_session, assume_role, downstream
\* calls: assume_role is called only after get_session has returned, S3 and DynamoDB
\* calls happen only after assume_role has returned a session, no stage is entered
\* twice, and after a failed stage no stage runs
C1_StageOrder ==
  /\ \A i \in Positions("assume_role") :
       \E j \in 1..(i - 1) : calls[j] = "get_session:return"
  /\ \A i \in 1..Len(calls) :
       calls[i] \in DownstreamEvents =>
         /\ new_session # None
         /\ \E j \in 1..(i - 1) : calls[j] = "assume_role:return"
  /\ handed # <<>> => new_session # None /\ Occurs("assume_role:return")
  /\ Cardinality(Positions("get_session")) <= 1
  /\ Cardinality(Positions("assume_role")) <= 1
  /\ \A i \in 1..Len(calls) :
       FailureAt(i) => \A k \in (i + 1)..Len(calls) : calls[k] \notin StageEvents
  /\ pc = "raised" => calls # <<>> /\ calls[Len(calls)] \in RaiseEvents

\* a run of the bucket entry point that went through every stage and returned a frame
C1_Witness ==
  /\ entry = "bucket"
  /\ pc = "returned"
  /\ result # None
  /\ Occurs("s3.get_object")

\* C2: when assume_role returns no session, the run issues no S3 list/get and no
\* DynamoDB scan, hands no session to a collaborator and builds no client but the STS
\* one; the session of the first credential set never backs a downstream client
C2_HaltWithoutSession ==
  /\ (Occurs("assume_role:return") /\ new_session = None) =>
       /\ \A i \in 1..Len(calls) : calls[i] \notin DownstreamEvents
       /\ handed = <<>>
       /\ \A i \in 1..Len(clients) : clients[i].service = "sts"
  /\ \A i \in 1..Len(clients) :
       clients[i].service # "sts" => clients[i].session # sts_session

\* the table entry point ended after assume_role returned None
C2_Witness ==
  /\ entry = "tabla"
  /\ Terminal
  /\ Occurs("assume_role:return")
  /\ new_session = None

\* C3: after a provider-side (ClientError) or transport (BotoCoreError) error of the
\* role-assumption call, assume_role returns None and the error does not leave it; a
\* session is returned only after a successful answer
C3_AbsentSessionOnError ==
  /\ \A i \in 1..Len(calls) :
       calls[i] \in {"sts:ClientError", "sts:BotoCoreError"} =>
         /\ i < Len(calls)
         /\ calls[i + 1] = "assume_role:return"
         /\ new_session = None
         /\ exc = None \/ exc.t \notin {"ClientError", "BotoCoreError"}
  /\ new_session # None => Occurs("sts:ok")

\* assume_role has answered a transport error
C3_Witness == Occurs("sts:BotoCoreError") /\ Occurs("assume_role:return")

\* C4: a run sends at most one POST to the session endpoint and makes at most one
\* role-assumption call
C4_SingleAttempt ==
  /\ Len(posts) <= 1
  /\ Cardinality(Positions("requests.post")) <= 1
  /\ Cardinality(Positions("sts.assume_role")) <= 1

\* a run that ended on a failed exchange after its one POST
C4_Witness ==
  /\ pc = "raised"
  /\ Len(posts) = 1
  /\ exc.t = "Exception"
  /\ exc.msg = "Error HTTP"

\* get_session has dealt with the response of the endpoint
ExchangeHandled == response # None /\ pc # "handle_response"

FailureStatus(r) == r.status_code \in 400..599

\* the bodies of the model that are not JSON
InvalidJson(r) ==
  r.content \in {<<"<html>">>, <<"{", "credentialSet", ":", "[">>, <<"bytes:ff">>}

\* the bodies of the model that are UTF-8 text
TextBody(r) == r.content # <<"bytes:ff">>

C6_CredentialSetPassedOn ==
  /\ Occurs("get_session:return") =>
       \A es \in SeqsUpTo(EntryLexemes, MaxCreds) :
         response.content = <<"{", "credentialSet", ":">> \o JsonListText(es) \o <<"}">> =>
           credentials_anywhere = [t |-> "list", v |-> [i \in 1..Len(es) |-> EntryOf(es[i])]]
  /\ sts_session # None =>
       /\ sts_session.aws_access_key_id = credentials_anywhere.v[1].credentials.accessKeyId
       /\ sts_session.aws_secret_access_key = credentials_anywhere.v[1].credentials.secretAccessKey
       /\ sts_session.aws_session_token = credentials_anywhere.v[1].credentials.sessionToken
       /\ clients[1] = [service |-> "sts", session |-> sts_session]

\* the temporary session was built from a credentialSet of two different entries
C6_Witness ==
  /\ sts_session # None
  /\ Len(credentials_anywhere.v) = 2
  /\ credentials_anywhere.v[1] # credentials_anywhere.v[2]

CertificateLoadDone == pc \notin {"idle", "call_get_session", "load_cert"}

PrivateKeyLoadDone == CertificateLoadDone /\ pc # "load_key"

IdentityLoadErrors ==
  {"Error al cargar el certificado", "El certificado no es PEM",
   "Error al cargar la clave privada"}

\* C7: when the normalised certificate text does not begin with the PEM certificate
\* header, when certificate parsing fails or when key parsing fails, get_session raises
\* an identity-load error, and no header, payload or request exists at that point
C7_IdentityLoadError ==
  (\/ CertificateLoadDone /\ ~StartsWith(certificate_path, PemCertHeader)
   \/ CertificateLoadDone /\ cert = None
   \/ PrivateKeyLoadDone /\ private_key = None) =>
    /\ pc = "raised"
    /\ exc.t = "Exception"
    /\ exc.msg \in IdentityLoadErrors
    /\ calls[Len(calls)] = "get_session:raise"
    /\ Headers = <<>>
    /\ RequestPayload = <<>>
    /\ CanonicalRequest = <<>>
    /\ Authorization = <<>>
    /\ posts = <<>>
    /\ response = None

\* a certificate that parses but follows a leading blank was turned down
C7_Witness ==
  /\ pc = "raised"
  /\ cert # None
  /\ ~StartsWith(certificate_path, PemCertHeader)
  /\ exc.msg = "El certificado no es PEM"

\* access key ids of the credential sets the session endpoint returns
FirstCredentialKeyIds == {EntryOf(l).credentials.accessKeyId : l \in EntryLexemes}

\* C8: every session handed to obtener_archivo_por_fecha, leer_zip_s3 and
\* listar_items_dynamodb, and every S3 or DynamoDB client, is the session assume_role
\* returned after a successful role assumption; it is never the session of the first
\* credential set
C8_OnlyAssumedSessionHanded ==
  /\ \A i \in 1..Len(handed) :
       /\ Occurs("sts:ok")
       /\ handed[i].session = new_session
       /\ handed[i].session # None
       /\ handed[i].session # sts_session
       /\ handed[i].session.aws_access_key_id \notin FirstCredentialKeyIds
  /\ \A i \in 1..Len(clients) :
       clients[i].service # "sts" =>
         /\ clients[i].session = new_session
         /\ clients[i].session # None
         /\ clients[i].session.aws_access_key_id \notin FirstCredentialKeyIds

\* both collaborators of the bucket entry point have been given their session
C8_Witness ==
  /\ Len(handed) = 2
  /\ handed[1].to = "obtener_archivo_por_fecha"
  /\ handed[2].to = "leer_zip_s3"

\* the payload get_session would send for a duration
PayloadFor(duration) ==
  JsonDumps(<< <<K_durationSeconds, JsonInt(duration)>>,
               <<K_roleArn, JsonStr(role_arn_aws)>>,
               <<K_trustAnchorArn, JsonStr(trust_anchor_arn)>>,
               <<K_profileArn, JsonStr(profile_arn)>> >>)

\* C9: the durationSeconds of the payload sent is the duration the caller requested,
\* and 3600 when the caller requested none
C9_DurationAsRequested ==
  posts # <<>> =>
    Decode(posts[1].data) =
      PayloadFor(IF requested_duration = None THEN 3600 ELSE requested_duration.v)

UpperCaseLetters ==
  {"A","B","C","D","E","F","G","H","I","J","K","L","M","N","O","P","Q","R","S","T","U",
   "V","W","X","Y","Z"}

LowerHexDigits == {"0","1","2","3","4","5","6","7","8","9","a","b","c","d","e","f"}

\* C10: the canonical request is POST, /sessions, the empty query string, the headers
\* block, the signed-header list and the lower-case hex digest of the payload bytes,
\* joined by single line breaks; the headers block is one 'name:value' line per header,
\* name lower-cased, each line ended by a line break
C10_CanonicalRequestLayout ==
  canonical_out # <<>> =>
    LET names == [i \in 1..Len(header_map) |-> Lowercase(header_map[i][1])]
        block == Concat([i \in 1..Len(header_map) |->
                           names[i] \o <<":">> \o header_map[i][2] \o <<"\n">>])
        signed == Join(<<";">>, names)
        hashed == Hex(SHA256(payload_bytes))
    IN /\ canonical_out =
            Join(<<"\n">>, << <<"P","O","S","T">>, <<"/","s","e","s","s","i","o","n","s">>,
                              <<>>, block, signed, hashed >>)
       /\ \A i \in 1..Len(hashed) : hashed[i] \in LowerHexDigits
       /\ \A i \in 1..Len(names) : \A j \in 1..Len(names[i]) :
            names[i][j] \notin UpperCaseLetters
       /\ Len(header_map) > 0 => block[Len(block)] = "\n"

\* a canonical request was built from two headers and a non-empty payload
C10_Witness ==
  /\ canonical_out # <<>>
  /\ Len(header_map) = 2
  /\ payload_bytes # <<>>

\* the pieces of s between the occurrences of the character c
Split(s, c) ==
  LET P == {i \in 1..Len(s) : s[i] = c}
      n == Cardinality(P)
      pos(k) == CHOOSE i \in P : Cardinality({j \in P : j < i}) = k - 1
  IN [k \in 1..(n + 1) |->
        SubSeq(s, IF k = 1 THEN 1 ELSE pos(k - 1) + 1,
                  IF k = n + 1 THEN Len(s) ELSE pos(k) - 1)]

\* the name of a 'name:value' line: what precedes the first colon
NameOfLine(line) == Split(line, ":")[1]

CredentialOf(auth) == Split(Split(auth, ",")[1], "=")[2]

\* C12: once a request is signed, the timestamp of the X-Amz-Date header is the second
\* line of the StringToSign; the third line is the scope, made of the first 8 characters
\* of that timestamp, the region, 'rolesanywhere' and 'aws4_request'; and the Credential
\* of the Authorization header is the certificate serial number followed by that same
\* scope; the request that is sent carries these headers
C12_OneTimestampOneScope ==
  Authorization # <<>> =>
    LET sts == Split(StringToSign, "\n")
        ts == DictGet(Headers, H_XAmzDate)
        cred == Split(CredentialOf(DictGet(Headers, H_Authorization)), "/")
    IN /\ Len(sts) = 4
       /\ sts[2] = ts
       /\ ts = RequestDateTime
       /\ sts[3] = Join(<<"/">>, <<SubSeq(ts, 1, 8), region,
                                   <<"r","o","l","e","s","a","n","y","w","h","e","r","e">>,
                                   <<"a","w","s","4","_","r","e","q","u","e","s","t">> >>)
       /\ sts[3] = CredentialScope
       /\ cred[1] = Str(cert.serial_number)
       /\ Join(<<"/">>, Tail(cred)) = sts[3]
       /\ \A i \in 1..Len(posts) : posts[i].headers = Headers

\* a request signed at the first clock reading has been sent
C12_Witness ==
  /\ posts # <<>>
  /\ RequestDateTime = Timestamp1

\* s with every backslash that is followed by n replaced, together with that n, by a
\* line break
Unescaped(s) ==
  LET P == {i \in 1..(Len(s) - 1) : s[i] = "\\" /\ s[i + 1] = "n"}
  IN Concat([i \in 1..Len(s) |->
               IF i \in P THEN <<"\n">>
               ELSE IF (i - 1) \in P THEN <<>>
               ELSE <<s[i]>>])

\* C13: the text given to the certificate parser is the certificate string with every
\* escaped newline replaced by a line break, and so is the text given to the key
\* parser when the key string has escaped newlines; no escaped newline reaches either
\* parser; a certificate string without escaped newlines is given to the parser as it is
C13_EscapedNewlinesReplaced ==
  cert_parsed # None =>
    /\ cert_parsed.v = Unescaped(pem_text)
    /\ Contains(pem_text, <<"\\", "n">>) => key_parsed.v = Unescaped(pem_text)
    /\ ~Contains(cert_parsed.v, <<"\\", "n">>)
    /\ ~Contains(key_parsed.v, <<"\\", "n">>)
    /\ ~Contains(pem_text, <<"\\", "n">>) => cert_parsed.v = pem_text

\* a certificate string with two escaped newlines has been normalised
C13_Witness ==
  /\ cert_parsed # None
  /\ pem_text = CertEscaped

\* C14: for a key string that contains the PEM header and footer and no line break, the
\* text given to the key parser has a line break right after the header and right
\* before the footer
C14_LineBreaksAroundKeyBody ==
  (/\ key_parsed # None
   /\ Contains(pem_text, PemKeyHeader)
   /\ Contains(pem_text, PemKeyFooter)
   /\ ~Contains(pem_text, <<"\n">>)) =>
    /\ Contains(key_parsed.v, PemKeyHeader \o <<"\n">>)
    /\ Contains(key_parsed.v, <<"\n">> \o PemKeyFooter)

\* what invocation i has built, received and returned is its own: the header and the
\* scope carry its own clock reading, the payload its own role, the credential set and
\* the error are those of its own response, the temporary session is built from its own
\* first credential set, and the session returned is the one of its own STS answer
OwnResults(i) ==
  LET v == inv[i]
  IN /\ v.Authorization # <<>> =>
          /\ DictGet(v.Headers, H_XAmzDate) = v.RequestDateTime
          /\ DictGet(v.Headers, H_Authorization) = v.Authorization
          /\ Split(CredentialOf(v.Authorization), "/")[2] = SubSeq(v.RequestDateTime, 1, 8)
          /\ Contains(Decode(v.RequestPayload),
                      <<"\"">> \o K_roleArn \o <<"\"", ":", " ", "\"">> \o v.role_arn_aws
                        \o <<"\"">>)
     /\ v.pc \in {"assume", "done"} =>
          v.credentials_anywhere = [t |-> "list", v |-> <<EntryOf(v.response.content[5])>>]
     /\ (v.pc = "raised" /\ v.response # None) =>
          /\ v.exc.contenido = v.response.content
          /\ v.exc.cause.status_code = v.response.status_code
     /\ v.pc = "done" =>
          /\ v.sts_session.aws_access_key_id =
               EntryOf(v.response.content[5]).credentials.accessKeyId
          /\ v.new_session # None <=> v.sts_answer.t = "ok"
          /\ v.sts_answer.t = "ok" =>
               v.new_session.aws_session_token = v.sts_answer.Credentials.SessionToken

\* C15: under every interleaving of two invocations, what each one builds and returns
\* is determined by its own inputs, clock reading and responses, and a step of one
\* invocation leaves every local of the other as it was
C15_InvocationsIndependent ==
  /\ [](\A i \in DOMAIN inv : OwnResults(i))
  /\ [][\A i \in DOMAIN inv :
          inv'[i] # inv[i] => \A j \in DOMAIN inv \ {i} : inv'[j] = inv[j]]_vars

\* both invocations have signed a request and neither has sent it yet; their clock
\* readings and their roles differ
C15_Witness ==
  /\ DOMAIN inv = {1, 2}
  /\ inv[1].pc = "post"
  /\ inv[2].pc = "post"
  /\ inv[1].RequestDateTime # inv[2].RequestDateTime
  /\ inv[1].role_arn_aws # inv[2].role_arn_aws

\* the scans of the table made so far, each with its ExclusiveStartKey and its answer
ScanCalls == SelectSeq(service_calls, LAMBDA c : c.op = "scan")

\* the items of the pages answered so far, in page order
PagesSoFar ==
  Concat([k \in 1..Len(ScanCalls) |->
            IF ScanCalls[k].response.t = "ok" THEN ScanCalls[k].response.Items ELSE <<>>])

\* a scan answered without LastEvaluatedKey
LastPage(c) == c.response.t = "ok" /\ "LastEvaluatedKey" \notin DOMAIN c.response

\* C16: the first scan has no ExclusiveStartKey, each later scan has the
\* LastEvaluatedKey of the answer before it, no scan follows an answer without
\* LastEvaluatedKey, and after such an answer the function has returned the items of all
\* pages in page order; once called, listar_items_dynamodb comes to an end
C16_ScanUntilNoToken ==
  /\ [](/\ ScanCalls # <<>> => ScanCalls[1].ExclusiveStartKey = None
        /\ \A k \in 2..Len(ScanCalls) :
             /\ ScanCalls[k - 1].response.t = "ok"
             /\ "LastEvaluatedKey" \in DOMAIN ScanCalls[k - 1].response
             /\ ScanCalls[k].ExclusiveStartKey = ScanCalls[k - 1].response.LastEvaluatedKey
        /\ items = PagesSoFar
        /\ (ScanCalls # <<>> /\ LastPage(ScanCalls[Len(ScanCalls)])) =>
             /\ pc = "returned"
             /\ result = [t |-> "list", v |-> PagesSoFar]
        /\ pc = "returned" => ScanCalls # <<>> /\ LastPage(ScanCalls[Len(ScanCalls)]))
  /\ (pc = "scan") ~> (pc \in {"returned", "raised"})

\* three pages were scanned and the list was returned
C16_Witness ==
  /\ pc = "returned"
  /\ Len(ScanCalls) = 3
  /\ Len(result.v) >= 2

ZipCalls ==
  SelectSeq(service_calls, LAMBDA c : c.op = "get_object" /\ c.response.t = "zip")

\* the entries of an archive whose name ends in '.csv', in archive order
CsvEntries(namelist) ==
  SelectSeq(namelist, LAMBDA n : EndsWith(n, <<".", "c", "s", "v">>))

\* the same entries without the one the code names
CsvEntriesRead(namelist) == SelectSeq(CsvEntries(namelist), LAMBDA n : n # ExcludedCsv)

\* what leer_zip_s3 returns when it reads exactly these entries
FrameOf(entries) ==
  IF entries = <<>> THEN None
  ELSE [t |-> "DataFrame",
        rows |-> Concat([i \in 1..Len(entries) |-> read_csv(entries[i])])]

C19_NoEscalationWithoutCredentials ==
  (Occurs("get_session:return") /\ Falsy(credentials_anywhere)) =>
    /\ ~Occurs("assume_role")
    /\ exc = None \/ exc.t \notin {"TypeError", "IndexError"}
    /\ pc \in {"returned", "raised"} => result = None

\* the last operation was process, handling a submitted modal
SubmissionProcessed ==
  /\ slack_req # None
  /\ slack_req.type = "interactive"
  /\ slack_req.payload.type = "view_submission"

\* the two dates, the seven field values and the user id of the request are in d
HoldsSubmission(d, payload) ==
  /\ \A k \in {"fecha_inicio", "fecha_fin", "field_1", "field_2", "field_3", "field_4",
               "field_5", "field_6", "field_7", "user_id"} : DictHas(d, k)
  /\ DictGet(d, "fecha_inicio") = payload.values.fecha_inicio
  /\ DictGet(d, "fecha_fin") = payload.values.fecha_fin
  /\ DictGet(d, "field_1") = payload.values.field_1
  /\ DictGet(d, "field_2") = payload.values.field_2
  /\ DictGet(d, "field_3") = payload.values.field_3
  /\ DictGet(d, "field_4") = payload.values.field_4
  /\ DictGet(d, "field_5") = payload.values.field_5
  /\ DictGet(d, "field_6") = payload.values.field_6
  /\ DictGet(d, "field_7") = payload.values.field_7
  /\ DictGet(d, "user_id") = payload.user

\* C20: after process has handled a view_submission, no exception has left it; the
\* shared dict, when set_shared_data has supplied one, holds the two dates, the seven
\* field values and the user id of the submission; and when no shared data was set
\* nothing is stored
C20_SubmissionStoredOrIgnored ==
  SubmissionProcessed =>
    /\ slack_exc = None
    /\ shared_data \notin {Unset, None} => HoldsSubmission(shared_data.d, slack_req.payload)

\* the half of C20 that the code keeps: a submission processed after set_shared_data
\* supplied a dict leaves its ten values in that dict
C20_StoredWhenSet ==
  (SubmissionProcessed /\ shared_data \notin {Unset, None}) =>
    /\ slack_exc = None
    /\ HoldsSubmission(shared_data.d, slack_req.payload)

\* a submission was processed on a client whose dict still held an earlier user
C20_StoredWitness ==
  /\ SubmissionProcessed
  /\ shared_data \notin {Unset, None}
  /\ Len(shared_data.d) = 10
  /\ shared_data.d[1] = <<"user_id", "U1">>

\* start_socket_mode has built its Socket Mode client on this client
SocketModeStarted == \E j \in 1..Len(slack_calls) : slack_calls[j].api = "connect"

\* the calls enviar_mensaje_via_websocket and publicar_home_tab make
IsSocketApiCall(c) ==
  c.via = "socket" /\ c.api \in {"chat_postMessage", "views_publish"}

\* C21: every chat_postMessage or views_publish made by enviar_mensaje_via_websocket
\* or publicar_home_tab comes after a start_socket_mode call on the same client, and a
\* call of either operation before start_socket_mode makes no Slack API call and
\* leaves the client as it was
C21_NoSocketCallBeforeStart ==
  /\ [](\A k \in 1..Len(slack_calls) :
          IsSocketApiCall(slack_calls[k]) =>
            \E j \in 1..(k - 1) : slack_calls[j].api = "connect")
  /\ [][((EnviarMensajeViaWebsocket \/ PublicarHomeTab) /\ ~SocketModeStarted) =>
          UNCHANGED <<slack_calls, socket_mode_client, shared_data>>]_vars

\* three operations ran on the client: start_socket_mode built the Socket Mode
\* client, a message went out through it and then a Home Tab was published
C21_Witness ==
  /\ slack_ops = 3
  /\ Len(slack_calls) = 3
  /\ slack_calls[1].api = "connect"
  /\ slack_calls[2].api = "chat_postMessage" /\ slack_calls[2].via = "socket"
  /\ slack_calls[3].api = "views_publish"
====
